---- MODULE Spec2Model ----
(***************************************************************************)
(* Mosaic: a component runtime with an Observable data wrapper, a          *)
(* per-type template table and a per-Part dirty-check/commit repaint.      *)
(*                                                                         *)
(* Every Mosaic operation is synchronous, so each operation is one action. *)
(* The operators named after the source functions (Mosaic, paint, repaint, *)
(* new, makeArraysObservable, ...) map a "world" record (the whole heap of *)
(* the page) to the world after the call; an action applies one of them.   *)
(* A thrown exception leaves the world as it was when it was thrown and is *)
(* recorded in the err field.  The calls and hook invocations an operation *)
(* makes are recorded, in order, in its log.                               *)
(***************************************************************************)
EXTENDS Integers, Sequences, FiniteSets, TLC

\* ---------------------------------------------------------------- bounds
MaxInst == 2          \* component instances alive on the page
MaxVal  == 1          \* scalar data values are 0..MaxVal
MaxLen  == 1          \* longest array a push may produce
MaxKey  == 1          \* keys randomKey may hand out to copies new() abandons

Vals         == 0..MaxVal
Items        == {"b"}
ExplicitTids == {"app"}

\* ------------------------------------------------------------- JS values
Undefined == -1              \* the JS value undefined, where a scalar is read
NoNode    == 0               \* element is undefined: no DOM node
NoKey     == "undefined"     \* iid before new() assigns one
NoError   == ""

VARIABLES
    insts,          \* the component instances, by creation order
    TemplateTable,  \* tid -> cached template (its content fragment, its values)
    partHeap,       \* Part object -> [lastValue, dirty]; a Part is <<tid, index>>
    nodes,          \* DOM nodes, by creation order
    doc,            \* template content that was moved into the document
    arrays,         \* raw (unwrapped) array objects, by creation order
    nextKey,        \* number of keys randomKey has produced
    parses,         \* tid -> times the view + createParts path ran for it
    lastRepaint,    \* tid -> the instance whose repaint last went over its Parts
    mutateFirst,    \* Observable applies the write before onBeforeChange
    last            \* the last operation: its name, instance, log and error;
                    \* old is the count before a write, the receiver of a new()

vars == <<insts, TemplateTable, partHeap, nodes, doc, arrays, nextKey, parses,
          lastRepaint, mutateFirst, last>>

\* The world an operation acts on.
World == [insts |-> insts, TemplateTable |-> TemplateTable, partHeap |-> partHeap,
          nodes |-> nodes, doc |-> doc, arrays |-> arrays, nextKey |-> nextKey,
          parses |-> parses, lastRepaint |-> lastRepaint, log |-> <<>>,
          err |-> NoError, writes |-> 0]

\* --------------------------------------------------------- log and errors
Ev(name, i) == [ev |-> name, inst |-> i, part |-> 0, val |-> Undefined,
                seen |-> Undefined, node |-> NoNode, args |-> FALSE, again |-> FALSE]

Emit(W, e) == [W EXCEPT !.log = Append(@, e)]

Throw(W, x) == [W EXCEPT !.err = x]

Ok(W) == W.err = NoError

\* util.randomKey: a key no earlier call returned.
randomKey(W) == "k" \o ToString(W.nextKey + 1)

\* ------------------------------------------------------------------- DOM
HTMLElementNode(attached) ==
    [kind |-> "element", inDoc |-> attached, kids |-> attached,
     slots |-> <<>>, origin |-> NoNode]

\* template.element.content of a freshly parsed template with n Parts.
TemplateContent(n) ==
    [kind |-> "fragment", inDoc |-> FALSE, kids |-> FALSE,
     slots |-> [k \in 1..n |-> "{{}}"], origin |-> NoNode]

\* Node.cloneNode(true): a detached deep copy.
cloneNode(W, n) == [W.nodes[n] EXCEPT !.inDoc = FALSE, !.origin = n]

\* document.contains(element); contains(undefined) is false.
documentContains(W, n) == n # NoNode /\ W.nodes[n].inDoc

\* validations.isHTMLElement: a DocumentFragment is not an HTMLElement.
isHTMLElement(W, n) == n # NoNode /\ W.nodes[n].kind = "element"

\* ------------------------------------------------------------------ data
\* Reading count / todos.length through the instance's data proxy.
ReadTodos(W, d) == IF d.hasTodos THEN W.arrays[d.arr] ELSE <<>>

\* The view of the modelled component type: Part 1 binds data.count, Part 2
\* binds the length of data.todos.  The TemplateResult carries values as a
\* list of rows.
view(W, d) ==
    [values |-> << <<d.count, IF d.hasTodos THEN Len(W.arrays[d.arr]) ELSE Undefined>> >>,
     nparts |-> 2]

\* String(value), as a text Part renders it.
Stringify(v) == IF v = Undefined THEN "undefined" ELSE ToString(v)

\* ------------------------------------------------------------------ Part
\* template.createParts: one Part per binding point of the template.
createParts(tid, n) == [k \in 1..n |-> <<tid, k>>]

NewPart == [lastValue |-> Undefined, dirty |-> FALSE]

\* Part.checkWasChanged(candidate): dirty = (candidate !== lastValue), and
\* lastValue follows when dirty.
checkWasChanged(p, v) ==
    [lastValue |-> IF v # p.lastValue THEN v ELSE p.lastValue,
     dirty     |-> v # p.lastValue]

\* Part.commit(owner, rootElement, value) for a text Part: writes the
\* stringified value at the Part's location under rootElement, when the
\* root holds that location.
commit(W, i, root, k, v) ==
    LET W1 == Emit(W, [Ev("commit", i) EXCEPT !.part = k, !.val = v, !.node = root])
    IN IF root # NoNode /\ k \in DOMAIN W1.nodes[root].slots
       THEN [W1 EXCEPT !.nodes[root].slots[k] = Stringify(v)]
       ELSE W1

\* --------------------------------------------------------------- repaint
\* repaint's loop body without the dirty === false skip.
repaintPartNoSkip(W, i, k) ==
    LET I  == W.insts[i]
        v  == IF k \in DOMAIN I.values.vals THEN I.values.vals[k] ELSE Undefined
        p  == checkWasChanged(W.partHeap[I.parts.refs[k]], v)
        W1 == [W EXCEPT !.partHeap[I.parts.refs[k]] = p]
    IN commit(W1, i, I.element, k, v)

\* The body of repaint's loop for index k: check, skip when clean, commit.
repaintPart(W, i, k) ==
    LET I  == W.insts[i]
        v  == IF k \in DOMAIN I.values.vals THEN I.values.vals[k] ELSE Undefined
        p  == checkWasChanged(W.partHeap[I.parts.refs[k]], v)
        W1 == [W EXCEPT !.partHeap[I.parts.refs[k]] = p]
    IN IF p.dirty = FALSE THEN W1 ELSE commit(W1, i, I.element, k, v)

RECURSIVE repaintLoop(_, _, _)
repaintLoop(W, i, k) ==
    IF ~Ok(W) \/ k > Len(W.insts[i].parts.refs) THEN W
    ELSE IF ~W.insts[i].values.def THEN Throw(W, "TypeError")
    ELSE repaintLoop(repaintPart(W, i, k), i, k + 1)

\* The last repaint over instance i's Parts was i's own: i repaints again.
RepaintsAgain(W, i) ==
    /\ W.insts[i].parts.def
    /\ W.insts[i].tid \in DOMAIN W.lastRepaint
    /\ W.lastRepaint[W.insts[i].tid] = i

\* Mosaic.prototype.repaint; this.parts.length throws when parts is undefined.
repaint(W, i) ==
    IF ~Ok(W) THEN W
    ELSE LET W1 == Emit(W, [Ev("repaint", i) EXCEPT !.again = RepaintsAgain(W, i)])
             W2 == repaintLoop(W1, i, 1)
         IN IF ~W1.insts[i].parts.def THEN Throw(W1, "TypeError")
            ELSE IF ~Ok(W2) THEN W2
            ELSE [W2 EXCEPT !.lastRepaint = (W2.insts[i].tid :> i) @@ @]

\* ------------------------------------------------------------ constructor
\* makeArraysObservable.call(instance i, data): every array-valued field is
\* replaced by an Observable whose callbacks belong to instance i.  The field
\* keeps the array it wraps, so a wrapped array is wrapped once more.
makeArraysObservable(d, i) ==
    IF d.hasTodos THEN [d EXCEPT !.owners = <<i>> \o @] ELSE d

NoParts  == [def |-> FALSE, refs |-> <<>>]
NoValues == [def |-> FALSE, vals |-> <<>>]

\* validations.findInvalidOptions: the message for a missing view, the
\* required option; nothing for valid options.
findInvalidOptions(o) == IF ~o.view THEN "view is required" ELSE NoError

\* options.data absent: the Observable wraps {}.
NoData == [count |-> Undefined, hasTodos |-> FALSE, arr |-> 0, owners |-> <<>>]

\* The constructor after its validation.  o.tid is NoKey when options.tid is
\* absent, o.element is NoNode when options.element is absent.
construct(W, o) ==
    LET i     == Len(W.insts) + 1
        fresh == o.tid = NoKey
        tid   == IF fresh THEN randomKey(W) ELSE o.tid
        data  == makeArraysObservable(o.data, i)
        base  == [tid |-> tid, iid |-> NoKey, element |-> o.element,
                  optElement |-> o.element, parts |-> NoParts, values |-> NoValues,
                  data |-> data, hooks |-> o.hooks, painted |-> FALSE, parent |-> 0]
        W1    == [W EXCEPT !.nextKey = IF fresh THEN @ + 1 ELSE @]
    IN IF tid \in DOMAIN W1.TemplateTable
       THEN [W1 EXCEPT !.insts = Append(@, base)]
       ELSE LET template == view(W1, data)
                f        == Len(W1.nodes) + 1
                W2       == [W1 EXCEPT !.nodes = Append(@, TemplateContent(template.nparts))]
                refs     == createParts(tid, template.nparts)
                W3       == [W2 EXCEPT
                               !.partHeap = [r \in {refs[k] : k \in DOMAIN refs} |-> NewPart] @@ @,
                               !.TemplateTable = (tid :> [content |-> f, values |-> template.values]) @@ @,
                               !.parses = (tid :> 1) @@ @]
                made     == [base EXCEPT !.parts = [def |-> TRUE, refs |-> refs],
                                         !.values = [def |-> TRUE, vals |-> Head(template.values)]]
            IN IF ~documentContains(W3, o.element)
               THEN [W3 EXCEPT !.nodes = Append(@, cloneNode(W3, f)),
                               !.insts = Append(@, [made EXCEPT !.element = Len(W3.nodes) + 1])]
               ELSE [W3 EXCEPT !.insts = Append(@, made)]

\* The constructor with the validation after the rest of its work.
MosaicValidatesLast(W, o) ==
    IF findInvalidOptions(o) # NoError THEN Throw(construct(W, o), "Error")
    ELSE construct(W, o)

\* new Mosaic(options)
Mosaic(W, o) ==
    IF findInvalidOptions(o) # NoError THEN Throw(W, "Error") ELSE construct(W, o)

\* ----------------------------------------------------------------- paint
\* base.replaceWith(n).  A node without a parent is left alone.  Inserting a
\* DocumentFragment moves its children into the document and leaves the
\* fragment empty.
replaceWith(W, base, n) ==
    IF ~W.nodes[base].inDoc THEN W
    ELSE IF W.nodes[n].kind = "fragment"
    THEN [W EXCEPT !.nodes[base].inDoc = FALSE,
                   !.nodes[n].slots = <<>>,
                   !.doc = IF W.nodes[n].slots = <<>> THEN @
                           ELSE @ \cup {[src |-> n, texts |-> W.nodes[n].slots]}]
    ELSE [W EXCEPT !.nodes[base].inDoc = FALSE, !.nodes[n].inDoc = TRUE]

\* while(this.element.firstChild) removeChild: the node is left childless.
removeChildren(W, n) == [W EXCEPT !.nodes[n].kids = FALSE, !.nodes[n].slots = <<>>]

\* paint after its element check: clear, repaint into the template's
\* content, replace the base element, call created.
paintValid(W, i) ==
    LET I        == W.insts[i]
        base     == I.element
        W1       == Emit(removeChildren(W, base),
                         [Ev("removeChild", i) EXCEPT !.node = base])
        template == W1.TemplateTable[I.tid]
        cloned   == template.content
        W2       == [W1 EXCEPT !.insts[i].element = cloned]
        W3       == repaint(W2, i)
        W4       == Emit(replaceWith(W3, base, W3.insts[i].element),
                         [Ev("replaceWith", i) EXCEPT !.node = W3.insts[i].element])
        W5       == [W4 EXCEPT !.insts[i].painted = TRUE]
    IN IF ~Ok(W3) THEN W3
       ELSE IF I.hooks.created THEN Emit(W5, [Ev("created", i) EXCEPT !.args = TRUE])
       ELSE W5

\* paint with the children removed before the element check.
paintClearFirst(W, i) ==
    LET base == W.insts[i].element
    IN IF base = NoNode THEN Throw(W, "TypeError")
       ELSE IF ~isHTMLElement(W, base) THEN Throw(removeChildren(W, base), "Error")
       ELSE paintValid(W, i)

\* Mosaic.prototype.paint
paint(W, i) ==
    IF W.insts[i].element = NoNode \/ ~isHTMLElement(W, W.insts[i].element)
    THEN Throw(W, "Error")
    ELSE paintValid(W, i)

\* ------------------------------------------------------------------- new
\* Mosaic.prototype.new(newData).  p.count is Undefined when the patch has
\* no count; p.todos says that the patch carries a fresh array.
new(W, i, p) ==
    LET A  == W.insts[i]
        W1 == IF p.todos THEN [W EXCEPT !.arrays = Append(@, <<>>)] ELSE W
        \* Object.assign({}, this.data, newData): a shallow copy
        d  == [count    |-> IF p.count # Undefined THEN p.count ELSE A.data.count,
               hasTodos |-> A.data.hasTodos \/ p.todos,
               arr      |-> IF p.todos THEN Len(W1.arrays) ELSE A.data.arr,
               owners   |-> IF p.todos THEN <<>> ELSE A.data.owners]
        W2 == Mosaic(W1, [tid |-> A.tid, element |-> A.optElement, data |-> d,
                          hooks |-> A.hooks, view |-> TRUE])
        j  == Len(W2.insts)
        W3 == [W2 EXCEPT !.insts[j].iid = randomKey(W2), !.insts[j].parent = i,
                         !.nextKey = @ + 1]
    IN IF ~A.parts.def \/ A.element = NoNode
       THEN \* this.parts.slice() throws: the copy is never returned
            Throw([W EXCEPT !.nextKey = @ + 1], "TypeError")
       ELSE LET n  == Len(W3.nodes) + 1
                W4 == [W3 EXCEPT !.insts[j].parts = A.parts,
                                 !.nodes = Append(@, cloneNode(W3, A.element)),
                                 !.insts[j].element = n]
                newView == view(W4, W4.insts[j].data)
                W5 == [W4 EXCEPT !.insts[j].values =
                                     [def |-> TRUE, vals |-> Head(newView.values)]]
            IN repaint(W5, j)

\* ------------------------------------------------------------- Observable
\* The callbacks the constructor gives the Observable over data.
onBeforeChange(W, i, oldCount) ==
    IF Ok(W) /\ W.insts[i].hooks.willUpdate
    THEN Emit(W, [Ev("willUpdate", i) EXCEPT !.val = oldCount, !.args = TRUE,
                                             !.seen = W.insts[i].data.count])
    ELSE W

onAfterChange(W, i) ==
    LET W1 == repaint(W, i)
    IN IF Ok(W1) /\ W1.insts[i].hooks.updated
       THEN Emit(W1, [Ev("updated", i) EXCEPT !.args = TRUE,
                                             !.seen = W1.insts[i].data.count])
       ELSE W1

\* The callbacks makeArraysObservable gives the Observable over an array:
\* oldData is not defined there, and updated gets no arguments.
arrayBeforeChange(W, i) ==
    IF Ok(W) /\ W.insts[i].hooks.willUpdate THEN Throw(W, "ReferenceError") ELSE W

arrayAfterChange(W, i) ==
    LET W1 == repaint(W, i)
    IN IF Ok(W1) /\ W1.insts[i].hooks.updated
       THEN Emit(W1, [Ev("updated", i) EXCEPT !.seen = W1.insts[i].data.count])
       ELSE W1

\* data.count = v through the Observable of instance i.
setCount(W, i, v) ==
    LET old       == W.insts[i].data.count
        mutate(X) == IF Ok(X) THEN [X EXCEPT !.insts[i].data.count = v,
                                             !.writes = @ + 1] ELSE X
    IN IF mutateFirst
       THEN onAfterChange(onBeforeChange(mutate(W), i, old), i)
       ELSE onAfterChange(mutate(onBeforeChange(W, i, old)), i)

\* What a hook of the page does when it is invoked: nothing more, or one
\* assignment data.count = MaxVal (whose own hooks assign nothing).
NoHookWrite == [hook |-> "none", val |-> Undefined]

HookWrites == {NoHookWrite} \cup [hook : {"willUpdate", "updated"}, val : {MaxVal}]

\* The body of the hook called name, once the callback has invoked it.
hookBody(W, i, hw, name) ==
    IF Ok(W) /\ hw.hook = name /\ W.insts[i].hooks[name]
    THEN setCount(W, i, hw.val)
    ELSE W

\* data.count = v through the Observable of instance i, with hooks that may
\* write to data themselves.
setCountHooked(W, i, v, hw) ==
    LET old       == W.insts[i].data.count
        mutate(X) == IF Ok(X) THEN [X EXCEPT !.insts[i].data.count = v,
                                             !.writes = @ + 1] ELSE X
        before(X) == hookBody(onBeforeChange(X, i, old), i, hw, "willUpdate")
        after(X)  == hookBody(onAfterChange(X, i), i, hw, "updated")
    IN IF mutateFirst THEN after(before(mutate(W))) ELSE after(mutate(before(W)))

\* A mutating call on an array wrapped by the Observables of owners
\* (outermost first): each wrapper passes the write to what it wraps.
RECURSIVE pushThrough(_, _, _, _)
pushThrough(W, owners, a, x) ==
    IF ~Ok(W) THEN W
    ELSE IF owners = <<>> THEN [W EXCEPT !.arrays[a] = Append(@, x), !.writes = @ + 1]
    ELSE LET o == Head(owners)
         IN IF mutateFirst
            THEN arrayAfterChange(arrayBeforeChange(pushThrough(W, Tail(owners), a, x), o), o)
            ELSE arrayAfterChange(pushThrough(arrayBeforeChange(W, o), Tail(owners), a, x), o)

\* ---------------------------------------------------------------- actions
\* The patch of a call that has none.
NoPatch == [count |-> Undefined, todos |-> FALSE]

\* An operation that led to W has run: the state becomes W, and last keeps
\* what the operation was, did and threw.
ApplyWith(result, op, i, old, patch) ==
    \E W \in {result} :
        /\ insts' = W.insts
        /\ TemplateTable' = W.TemplateTable
        /\ partHeap' = W.partHeap
        /\ nodes' = W.nodes
        /\ doc' = W.doc
        /\ arrays' = W.arrays
        /\ nextKey' = W.nextKey
        /\ parses' = W.parses
        /\ lastRepaint' = W.lastRepaint
        /\ last' = [op |-> op, inst |-> i, log |-> W.log, err |-> W.err, old |-> old,
                    writes |-> W.writes, patch |-> patch]
        /\ UNCHANGED mutateFirst

Apply(W, op, i, old) == ApplyWith(W, op, i, old, NoPatch)

\* The hooks a page defines: all of them, or all but willUpdate.
HookSets == {[willUpdate |-> TRUE,  updated |-> TRUE,  created |-> TRUE],
             [willUpdate |-> FALSE, updated |-> TRUE,  created |-> TRUE]}

\* The page calls new Mosaic({tid?, element?, data: {count: 0, todos: []},
\* view, hooks...}); element, when given, is an element of the document.
CallMosaic ==
    /\ Len(insts) < MaxInst
    /\ \E t \in ExplicitTids \cup {NoKey}, e \in BOOLEAN, h \in HookSets :
         \* two types of distinct tids are alike whichever came first: the
         \* one without an explicit tid is the first
         /\ t = NoKey => insts = <<>>
         /\ LET W0 == World
                \* the caller's element and data exist before the call
                W1 == IF e THEN [W0 EXCEPT !.nodes = Append(@, HTMLElementNode(TRUE))]
                      ELSE W0
                el == IF e THEN Len(W1.nodes) ELSE NoNode
                W2 == [W1 EXCEPT !.arrays = Append(@, <<>>)]
                d  == [count |-> 0, hasTodos |-> TRUE, arr |-> Len(W2.arrays),
                       owners |-> <<>>]
            IN \E W3 \in {Mosaic(W2, [tid |-> t, element |-> el, data |-> d,
                                       hooks |-> h, view |-> TRUE])} :
                  Apply(W3, "Mosaic", Len(W3.insts), Undefined)

\* The page calls new Mosaic({tid?}) without the required view.  No instance
\* is returned: the operation's instance is 0.
CallMosaicInvalid ==
    \E t \in ExplicitTids, h \in {[willUpdate |-> TRUE, updated |-> TRUE, created |-> TRUE]} :
        Apply(Mosaic(World, [tid |-> t, element |-> NoNode, data |-> NoData,
                             hooks |-> h, view |-> FALSE]),
              "Mosaic", 0, Undefined)

\* The page calls instance.repaint() directly.
CallRepaint ==
    \E i \in DOMAIN insts : Apply(repaint(World, i), "repaint", i, Undefined)

\* The page calls instance.paint().
CallPaint ==
    \E i \in DOMAIN insts : Apply(paint(World, i), "paint", i, Undefined)

\* The page calls instance.new(patch).
CallNew ==
    \E i \in DOMAIN insts, c \in Vals \cup {Undefined}, t \in BOOLEAN :
         /\ c = Undefined \/ ~t
         /\ \E W \in {new(World, i, [count |-> c, todos |-> t])} :
               /\ Len(W.insts) <= MaxInst
               /\ IF Ok(W) THEN TRUE ELSE W.nextKey <= MaxKey
               /\ ApplyWith(W, "new", IF Ok(W) THEN Len(W.insts) ELSE 0, i,
                            [count |-> c, todos |-> t])

\* The page (or an action) assigns instance.data.count = v; when v is 0, a
\* hook the write triggers may assign data.count in turn.
SetCount ==
    \E i \in DOMAIN insts, v \in Vals, hw \in HookWrites :
        /\ IF hw.hook = "none" THEN TRUE ELSE v = 0 /\ insts[i].hooks[hw.hook]
        /\ Apply(setCountHooked(World, i, v, hw), "set", i, insts[i].data.count)

\* The page (or an action) calls instance.data.todos.push(x).
PushTodos ==
    \E i \in DOMAIN insts, x \in Items :
        /\ insts[i].data.hasTodos
        /\ Len(arrays[insts[i].data.arr]) < MaxLen
        /\ Apply(pushThrough(World, insts[i].data.owners, insts[i].data.arr, x),
                 "push", i, Undefined)

\* The object the caller passed as options.data to the constructor of
\* instance i: makeArraysObservable works on that object itself
\* (_tempData = data), and it is the target of the instance's data.
OptionsData(i) == insts[i].data

\* The page calls optionsData.todos.push(x) on the data object it gave to
\* new Mosaic, not going through instance.data.
PushOriginal ==
    \E i \in DOMAIN insts, x \in Items :
        /\ insts[i].parent = 0
        /\ OptionsData(i).hasTodos
        /\ Len(arrays[OptionsData(i).arr]) < MaxLen
        /\ Apply(pushThrough(World, OptionsData(i).owners, OptionsData(i).arr, x),
                 "pushOriginal", i, Undefined)

Init ==
    /\ insts = <<>>
    /\ TemplateTable = <<>>
    /\ partHeap = <<>>
    /\ nodes = <<>>
    /\ doc = {}
    /\ arrays = <<>>
    /\ nextKey = 0
    /\ parses = <<>>
    /\ lastRepaint = <<>>
    /\ mutateFirst \in BOOLEAN
    /\ last = [op |-> "init", inst |-> 0, log |-> <<>>, err |-> NoError,
               old |-> Undefined, writes |-> 0, patch |-> NoPatch]

Next ==
    \/ CallMosaic
    \/ CallMosaicInvalid
    \/ CallRepaint
    \/ CallPaint
    \/ CallNew
    \/ SetCount
    \/ PushTodos
    \/ PushOriginal

Spec == Init /\ [][Next]_vars

\* ================================================================= claims
\* Mosaic.prototype.equals
equals(a, b) == a.tid = b.tid /\ a.iid = b.iid

\* What reads through instance i's data return.
DataView(i) == [count |-> insts[i].data.count,
                todos |-> ReadTodos(World, insts[i].data)]

\* The calls and hook invocations of a log, without the Parts' commits.
Calls(log) == SelectSeq(log, LAMBDA e : e.ev # "commit")

CommitsOf(log) == {log[k] : k \in {n \in DOMAIN log : log[n].ev = "commit"}}

\* C1: after paint(), an assignment data.count = v with v different from the
\* current value ends with the Part bound to count committed with v, and with
\* no other Part committed.
C1_ChangePropagation ==
    \A i \in DOMAIN insts :
        (last.op = "set" /\ last.inst = i /\ insts[i].painted
            /\ insts[i].data.count # last.old)
        => /\ insts[i].parts.def
           /\ partHeap[insts[i].parts.refs[1]].lastValue = insts[i].data.count
           /\ \E e \in CommitsOf(last.log) : e.part = 1 /\ e.val = insts[i].data.count
           /\ \A e \in CommitsOf(last.log) : e.part = 1

\* C2: for two instances of the same tid the view + createParts path ran
\* exactly once, and both instances' parts are the same cached Part sequence.
C2_TemplateSharing ==
    \A a, b \in DOMAIN insts :
        (a # b /\ insts[a].tid = insts[b].tid)
        => /\ parses[insts[a].tid] = 1
           /\ insts[a].parts.def /\ insts[b].parts.def
           /\ insts[a].parts.refs = insts[b].parts.refs

\* C3: one scalar mutation of data triggers exactly: willUpdate with the
\* pre-mutation snapshot, then repaint, then updated, and nothing else.
C3_ScalarCycle ==
    \A i \in DOMAIN insts :
        (last.op = "set" /\ last.inst = i /\ insts[i].hooks.willUpdate
            /\ insts[i].hooks.updated)
        => /\ last.err = NoError
           /\ Len(Calls(last.log)) = 3
           /\ \A k \in 1..3 : Calls(last.log)[k].inst = i
           /\ Calls(last.log)[1].ev = "willUpdate"
           /\ Calls(last.log)[1].val = last.old
           /\ Calls(last.log)[2].ev = "repaint"
           /\ Calls(last.log)[3].ev = "updated"

\* C4: a mutating call on an array-valued field triggers the scalar
\* sequence - willUpdate (when defined), repaint, updated(data, actions) -
\* and completes without error whether or not willUpdate is defined.
C4_ArrayCycle ==
    \A i \in DOMAIN insts :
        (last.op = "push" /\ last.inst = i)
        => LET c == Calls(last.log)
               n == IF insts[i].hooks.willUpdate THEN 3 ELSE 2
           IN /\ last.err = NoError
              /\ Len(c) = n
              /\ insts[i].hooks.willUpdate => c[1].ev = "willUpdate"
              /\ c[n - 1].ev = "repaint"
              /\ c[n].ev = "updated" /\ c[n].args

\* C5: B = A.new(p) is not equal to A, has A's tid, and no later mutation of
\* B.data changes what A.data reads or triggers A's willUpdate, repaint or
\* updated.
C5_CloneIndependence ==
    [][\A b \in DOMAIN insts :
         insts[b].parent # 0 =>
            LET a == insts[b].parent
            IN /\ ~equals(insts[b], insts[a])
               /\ insts[b].tid = insts[a].tid
               /\ (last'.op \in {"set", "push"} /\ last'.inst = b)
                  => /\ DataView(a)' = DataView(a)
                     /\ \A k \in DOMAIN last'.log : last'.log[k].inst # a]_vars

\* C6: a TemplateTable entry is written at most once, and once written
\* neither the entry nor its DOM fragment is changed by any later operation.
C6_TemplateImmutable ==
    [][\A t \in DOMAIN TemplateTable :
         /\ parses'[t] <= 1
         /\ TemplateTable'[t] = TemplateTable[t]
         /\ nodes'[TemplateTable[t].content] = nodes[TemplateTable[t].content]]_vars

\* C7: the cached fragment is never itself put into the document nor held as
\* an instance's element, and no node is the element of two instances.
C7_FragmentAlwaysCloned ==
    /\ \A t \in DOMAIN TemplateTable :
          /\ \A d \in doc : d.src # TemplateTable[t].content
          /\ \A i \in DOMAIN insts : insts[i].element # TemplateTable[t].content
    /\ \A i, j \in DOMAIN insts :
          (i # j /\ insts[i].element = insts[j].element) => insts[i].element = NoNode

\* C8: every instance has parts and values, of equal length.
C8_PartsMatchValues ==
    \A i \in DOMAIN insts :
        /\ insts[i].parts.def
        /\ insts[i].values.def
        /\ Len(insts[i].values.vals) = Len(insts[i].parts.refs)

\* The commits made by the repaint logged at position k: those up to the
\* next repaint of the log.
CommitsOfRepaint(log, k) ==
    {m \in DOMAIN log :
        /\ m > k /\ log[m].ev = "commit"
        /\ \A j \in DOMAIN log : (k < j /\ j < m) => log[j].ev # "repaint"}

\* C9: when an instance's repaint() runs again over its Parts, its values
\* unchanged and no other instance's repaint having gone over those Parts
\* since its own, no Part is committed and every Part's dirty flag is false.
C9_DirtySkip ==
    \A k \in DOMAIN last.log :
        (last.log[k].ev = "repaint" /\ last.log[k].again)
        => /\ CommitsOfRepaint(last.log, k) = {}
           /\ (\A j \in DOMAIN last.log : j > k => last.log[j].ev # "repaint")
              => \A r \in DOMAIN insts[last.log[k].inst].parts.refs :
                    ~partHeap[insts[last.log[k].inst].parts.refs[r]].dirty

\* A direct repaint() of an instance whose previous repaint committed its
\* Parts and was the last one over them.
C9_Witness ==
    /\ last.op = "repaint" /\ last.err = NoError
    /\ Len(last.log) = 1 /\ last.log[1].again
    /\ \A r \in DOMAIN insts[last.inst].parts.refs :
          partHeap[insts[last.inst].parts.refs[r]].lastValue # Undefined

\* C11: paint() on an instance whose element is absent or not an HTML
\* element throws before anything is touched: no child is removed, nothing
\* is repainted or committed, created is not called, and the instance's
\* element, values and Parts are as before.
C11_PaintFailsFast ==
    [][\A i \in DOMAIN insts :
         (last'.op = "paint" /\ last'.inst = i
            /\ (insts[i].element = NoNode \/ ~isHTMLElement(World, insts[i].element)))
         => /\ last'.err = "Error"
            /\ last'.log = <<>>
            /\ nodes' = nodes /\ doc' = doc
            /\ insts' = insts /\ partHeap' = partHeap]_vars

\* A paint() that threw on an instance whose element is a fragment that
\* still has its children.
C11_Witness ==
    /\ last.op = "paint" /\ last.err = "Error"
    /\ insts[last.inst].element # NoNode
    /\ nodes[insts[last.inst].element].kind = "fragment"
    /\ nodes[insts[last.inst].element].slots # <<>>

\* C12: any two distinct instances, however created, are not equal: equals
\* is true of an instance and itself only.
C12_InstancesDistinct ==
    \A a, b \in DOMAIN insts : equals(insts[a], insts[b]) <=> a = b

\* C13: a construction with invalid options throws before anything else
\* happens: TemplateTable and the Parts are unchanged (view is not invoked),
\* no key is drawn, no node is created or cloned, no instance comes to be.
C13_InvalidOptionsFailFast ==
    [][(last'.op = "Mosaic" /\ last'.inst = 0)
       => /\ last'.err = "Error"
          /\ last'.log = <<>>
          /\ TemplateTable' = TemplateTable /\ parses' = parses
          /\ partHeap' = partHeap /\ nextKey' = nextKey
          /\ nodes' = nodes /\ doc' = doc
          /\ insts' = insts /\ arrays' = arrays]_vars

\* A failed construction on a page that already has a component.
C13_Witness ==
    /\ last.op = "Mosaic" /\ last.inst = 0 /\ last.err = "Error"
    /\ Len(insts) > 0

\* The number of events called name in a log.
Count(log, name) == Cardinality({k \in DOMAIN log : log[k].ev = name})

\* C14: the n writes of an operation on data (the write itself and those its
\* hooks make) produce exactly n complete willUpdate, repaint, updated
\* passes, and every commit belongs to the repaint pass of its instance that
\* is under way: no pass is cut short or entered by another.
C14_NoBatchingNoInterruption ==
    (last.op \in {"set", "push"})
    => /\ last.err = NoError
       /\ Count(last.log, "repaint") = last.writes
       /\ Count(last.log, "updated") = last.writes
       /\ insts[last.inst].hooks.willUpdate
             => Count(last.log, "willUpdate") = last.writes
       /\ \A m \in DOMAIN last.log :
             last.log[m].ev = "commit"
             => \E k \in 1..(m - 1) :
                   /\ last.log[k].ev = "repaint"
                   /\ last.log[k].inst = last.log[m].inst
                   /\ \A j \in (k + 1)..(m - 1) : last.log[j].ev = "commit"

\* The number of Parts of the template of type tid.
PartsOf(tid) == Cardinality({r \in DOMAIN partHeap : r[1] = tid})

\* C15: paint() of an instance whose element is an HTMLElement clears that
\* element, then runs one repaint that commits every Part of the template
\* once, then replaces the element by the node the Parts were committed
\* into, then calls created once if it is defined, and does nothing else.
C15_PaintOrder ==
    [][\A i \in DOMAIN insts :
         (last'.op = "paint" /\ last'.inst = i /\ isHTMLElement(World, insts[i].element))
         => LET log == last'.log
                n   == PartsOf(insts[i].tid)
            IN /\ last'.err = NoError
               /\ Len(log) = n + 3 + (IF insts[i].hooks.created THEN 1 ELSE 0)
               /\ log[1].ev = "removeChild" /\ log[1].node = insts[i].element
               /\ ~nodes'[insts[i].element].kids
               /\ log[2].ev = "repaint" /\ log[2].inst = i
               /\ \A k \in 1..n : /\ log[2 + k].ev = "commit"
                                  /\ log[2 + k].part = k
                                  /\ log[2 + k].node = log[n + 3].node
               /\ log[n + 3].ev = "replaceWith"
               /\ ~nodes'[insts[i].element].inDoc
               /\ insts[i].hooks.created
                    => log[n + 4].ev = "created" /\ log[n + 4].inst = i]_vars

\* C16: once paint() has completed, the instance's element is an element
\* attached to the document.
C16_PaintedElementLive ==
    \A i \in DOMAIN insts :
        insts[i].painted
        => /\ isHTMLElement(World, insts[i].element)
           /\ documentContains(World, insts[i].element)

\* C17: every instance made by the constructor without an attached anchor
\* element, of a tid already in TemplateTable or not, has a clone of the
\* cached template's fragment as its element.
C17_DetachedGetsClone ==
    \A i \in DOMAIN insts :
        (insts[i].parent = 0 /\ ~documentContains(World, insts[i].optElement)
                             /\ ~insts[i].painted)
        => /\ insts[i].element # NoNode
           /\ insts[i].element # TemplateTable[insts[i].tid].content
           /\ nodes[insts[i].element].origin = TemplateTable[insts[i].tid].content

\* C18: a.new(patch) returns a new instance whose data is a's data
\* overridden by patch, whose values are the view of that data and whose iid
\* no instance had; a's data, values and element are as before, and no hook
\* of a is invoked.
C18_NewFrame ==
    [][(last'.op = "new")
       => LET a == last'.old
              p == last'.patch
              j == last'.inst
          IN /\ last'.err = NoError
             /\ j = Len(insts) + 1 /\ j \in DOMAIN insts'
             /\ insts'[j].data.count
                  = IF p.count # Undefined THEN p.count ELSE insts[a].data.count
             /\ ReadTodos([arrays |-> arrays'], insts'[j].data)
                  = IF p.todos THEN <<>> ELSE ReadTodos(World, insts[a].data)
             /\ insts'[j].values.def
             /\ insts'[j].values.vals
                  = Head(view([arrays |-> arrays'], insts'[j].data).values)
             /\ insts'[j].iid # NoKey
             /\ \A k \in DOMAIN insts : insts[k].iid # insts'[j].iid
             /\ insts'[a] = insts[a]
             /\ ReadTodos([arrays |-> arrays'], insts'[a].data)
                  = ReadTodos(World, insts[a].data)
             /\ insts[a].element # NoNode
                  => nodes'[insts[a].element] = nodes[insts[a].element]
             /\ \A k \in DOMAIN last'.log :
                   last'.log[k].ev \in {"willUpdate", "updated", "created"}
                   => last'.log[k].inst # a]_vars

\* C19: when a.repaint() returns, every Part location of a's own element
\* shows a's value for that Part, and the Parts it committed are those whose
\* location showed something else, whatever repaints of other instances of
\* the tid came in between.
C19_RepaintShowsOwnValues ==
    [][\A i \in DOMAIN insts :
         (last'.op = "repaint" /\ last'.inst = i /\ last'.err = NoError
                               /\ insts[i].element # NoNode)
         => \A k \in DOMAIN nodes[insts[i].element].slots :
               /\ nodes'[insts[i].element].slots[k] = Stringify(insts[i].values.vals[k])
               /\ (\E m \in DOMAIN last'.log :
                      last'.log[m].ev = "commit" /\ last'.log[m].part = k)
                  => nodes[insts[i].element].slots[k]
                       # Stringify(insts[i].values.vals[k])]_vars

\* C20: the data object given to the constructor keeps the array the caller
\* put in it, and a push on that object's array invokes nothing.
C20_OptionsDataUntouched ==
    /\ \A i \in DOMAIN insts : insts[i].parent = 0 => OptionsData(i).owners = <<>>
    /\ (last.op = "pushOriginal") => (last.log = <<>> /\ last.err = NoError)

====
